---- MODULE Spec2Model ----
(***************************************************************************)
(* A model of wxSDK (src/index.js): one asynchronous routine that loads    *)
(* the WeChat JS-SDK script into the page, fetches a signature, calls      *)
(* wx.config, waits for wx.ready and registers two share descriptors.      *)
(*                                                                         *)
(* Every action is one browser task: an invocation of wxSDK up to its      *)
(* first await, or one event/timer/callback delivered by the browser or    *)
(* by the SDK, together with the promise continuations (microtasks) that   *)
(* it makes runnable.                                                      *)
(***************************************************************************)
EXTENDS Integers, Sequences, FiniteSets, TLC

\* ---------------------------------------------------------------- bounds
NumCalls == 2        \* invocations of wxSDK on one page
MaxList == 3         \* longest caller-supplied jsApiList / openTagList

Calls == 1..NumCalls
Null == 0            \* a null element reference / no call

\* ------------------------------------------------------- program constants
BASE_API_LIST == <<"updateTimelineShareData", "updateAppMessageShareData">>
DEFAULT_OPEN_TAGS == <<"wx-open-launch-app">>

\* An Error object: the class the message belongs to and what it says.
Err(name, cause) == [name |-> name, cause |-> cause]
NoErr == Err("none", "none")
EnvironmentError == Err("EnvironmentError", "browser only")
ConfigurationError == Err("ConfigurationError", "apiUrl required")
LoadTimeoutError == Err("LoadTimeoutError", "jssdk load timed out")
LoadError == Err("LoadError", "jssdk load failed")
WaitLoadError == Err("LoadError", "sdk load failed")
NotLoadedError == Err("NotLoadedError", "jssdk not loaded correctly")
SignatureError(cause) == Err("SignatureError", cause)
SdkConfigError == Err("SdkConfigError", "reported by wx.error")
ShareError(kind) == Err("ShareError", kind)

\* ------------------------------------------------------------ configuration
Absent == "ABSENT"   \* the option is not a key of the caller's object
JsNull == "NULL"
ApiUrl == "https://host/sign?url="

\* A title, shareIcon or shareLinks value: one value, or an array of two.
Scalar(x) == [isArray |-> FALSE, at |-> <<x>>]
Pair(x, y) == [isArray |-> TRUE, at |-> <<x, y>>]

\* A URL: what precedes the first '#', and the rest.
Url(base, fragment) == [base |-> base, fragment |-> fragment]
\* url.split('#')[0]
StripFragment(u) == Url(u.base, "")

\* w.location.href
LocationHref == Url("https://page/article", "#comments")
DefaultIcon == "https://src.pandorastudio.cn/favicon.jpg"

defaultConfig ==
  [apiUrl |-> JsNull, jsApiList |-> <<>>, openTagList |-> <<>>,
   title |-> Pair("share to timeline", "share to friends"),
   desc |-> "default description",
   shareIcon |-> Scalar(DefaultIcon),
   shareLinks |-> Scalar(LocationHref)]

\* {...defaultConfig, ...options}: a key the caller gives wins
MergeConfig(options) ==
  [apiUrl |-> IF options.apiUrl = Absent THEN defaultConfig.apiUrl
              ELSE options.apiUrl,
   jsApiList |-> IF options.hasApiList THEN options.jsApiList
                 ELSE defaultConfig.jsApiList,
   openTagList |-> IF options.hasTagList THEN options.openTagList
                   ELSE defaultConfig.openTagList,
   title |-> IF options.hasTitle THEN options.title ELSE defaultConfig.title,
   desc |-> defaultConfig.desc,
   shareIcon |-> IF options.hasShareIcon THEN options.shareIcon
                 ELSE defaultConfig.shareIcon,
   shareLinks |-> IF options.hasShareLinks THEN options.shareLinks
                  ELSE defaultConfig.shareLinks]

\* wxSDK() with no argument: options = {}. callbacks says what the caller's
\* callback object holds: "none" (no callback), "given" (ready, success and
\* error, which return) or "ready throws" (the same, with a ready that throws).
NoOptions ==
  [apiUrl |-> Absent, hasApiList |-> FALSE, jsApiList |-> <<>>,
   hasTagList |-> FALSE, openTagList |-> <<>>,
   hasTitle |-> FALSE, title |-> defaultConfig.title,
   hasShareIcon |-> FALSE, shareIcon |-> defaultConfig.shareIcon,
   hasShareLinks |-> FALSE, shareLinks |-> defaultConfig.shareLinks,
   callbacks |-> "none"]

\* callback.ready / callback.success / callback.error is a function
HasCallbacks(o) == o.callbacks # "none"
ReadyThrows(o) == o.callbacks = "ready throws"

\* The page's <link rel*="icon">: no such element, an element with an empty
\* href, a query that throws, or an element with a URL.
NoFavicon == "ABSENT"
FaviconThrows == "THROWS"
FaviconUrl == "https://page/favicon.ico"
Favicons == {NoFavicon, "", FaviconThrows, FaviconUrl}

\* the closure's shareIcon after the favicon lookup
ShareIconOf(cfg, fav) ==
  IF fav \in {NoFavicon, "", FaviconThrows} THEN cfg.shareIcon ELSE Scalar(fav)

\* Array.isArray(x) ? x[k] : x   (k = 0 for the first, 1 for the second)
Pick(x, k) == IF x.isArray THEN x.at[k + 1] ELSE x.at[1]
\* Array.isArray(x) ? x[k] : x.split('#')[0]
PickLink(x, k) == IF x.isArray THEN x.at[k + 1] ELSE StripFragment(x.at[1])

NoDesc == "NO DESC"
\* timelineConfig / messageConfig
TimelineConfig(cfg, icon) ==
  [title |-> Pick(cfg.title, 0), link |-> PickLink(cfg.shareLinks, 0),
   imgUrl |-> Pick(icon, 0), desc |-> NoDesc]
MessageConfig(cfg, icon) ==
  [title |-> Pick(cfg.title, 1), link |-> PickLink(cfg.shareLinks, 1),
   imgUrl |-> Pick(icon, 1), desc |-> cfg.desc]
NoDescriptor ==
  [title |-> "none", link |-> Url("none", ""), imgUrl |-> "none", desc |-> NoDesc]

\* a check that takes only null for a missing value
FalsyNullOnly(v) == v = JsNull

\* !apiUrl
Falsy(v) == v \in {JsNull, ""}

\* a spread of the concatenation without the Set
SetSpreadKeepAll(list, seen) == seen \o list

\* [...new Set(list)]: a Set keeps the first occurrence of each value, in
\* insertion order
RECURSIVE SetSpread(_, _)
SetSpread(list, seen) ==
  IF list = <<>> THEN seen
  ELSE IF \E k \in 1..Len(seen) : seen[k] = Head(list)
       THEN SetSpread(Tail(list), seen)
       ELSE SetSpread(Tail(list), Append(seen, Head(list)))

FullApiList(cfg) == SetSpread(BASE_API_LIST \o cfg.jsApiList, <<>>)
FullOpenTagList(cfg) == SetSpread(DEFAULT_OPEN_TAGS \o cfg.openTagList, <<>>)

\* --------------------------------------------------------------- the SDK
\* The global wx object, as the set of functions it has ({}: no usable wx).
ShareApis == {"updateTimelineShareData", "updateAppMessageShareData"}
SdkBuilds == {{}} \cup {{"config"} \cup s : s \in SUBSET ShareApis}
\* a test that never finds the SDK
WxCallableNever(w) == FALSE
\* typeof w.wx?.config === 'function'
WxCallable(w) == "config" \in w

Kinds == {"timeline", "message"}
EntryPoint(kind) ==
  IF kind = "timeline" THEN "updateTimelineShareData"
  ELSE "updateAppMessageShareData"

\* ------------------------------------------------- signature endpoint replies
SigFields == {"appId", "timestamp", "nonceStr", "signature"}
NoReply == [net |-> "none", ok |-> FALSE, status |-> 0, body |-> "none", fields |-> {}]
Responses ==
  {[net |-> "failed", ok |-> FALSE, status |-> 0, body |-> "none", fields |-> {}]}
  \cup {[net |-> "ok", ok |-> FALSE, status |-> s, body |-> "none", fields |-> {}] :
          s \in {404, 500}}
  \cup {[net |-> "ok", ok |-> TRUE, status |-> 200, body |-> b, fields |-> {}] :
          b \in {"malformed", "null"}}
  \cup {[net |-> "ok", ok |-> TRUE, status |-> 200, body |-> "object", fields |-> f] :
          f \in SUBSET SigFields}

\* the same with a field check that leaves the signature out
FetchSignatureErrorNoSignature(r) ==
  IF r.net = "failed" THEN SignatureError("network error")
  ELSE IF ~r.ok THEN SignatureError(IF r.status = 500 THEN "request failed (500)"
                                    ELSE "request failed (404)")
  ELSE IF r.body = "malformed" THEN SignatureError("invalid json")
  ELSE IF ~((SigFields \ {"signature"}) \subseteq (IF r.body = "null" THEN {} ELSE r.fields))
       THEN SignatureError("bad response format")
  ELSE NoErr

\* fetchSignature's outcome for a reply: NoErr when it returns the signature,
\* otherwise the error it throws (always through its catch block).
FetchSignatureError(r) ==
  IF r.net = "failed" THEN SignatureError("network error")
  ELSE IF ~r.ok THEN SignatureError(IF r.status = 500 THEN "request failed (500)"
                                    ELSE "request failed (404)")
  ELSE IF r.body = "malformed" THEN SignatureError("invalid json")
  ELSE IF (IF r.body = "null" THEN {} ELSE r.fields) # SigFields
       THEN SignatureError("bad response format")
  ELSE NoErr

\* ------------------------------------------------------------------ state
VARIABLES
  hasDocument,    \* w.document exists
  favicon,        \* the page's icon link, see Favicons
  wx,             \* w.wx
  doc,            \* the script elements with id wxShareSDK in the document
  elState,        \* per element: "none", "loading", "loaded", "errored"
  onload,         \* per element: its onload handler
  onerror,        \* per element: its onerror handler
  scriptTag,      \* per call: the closure's scriptTag
  timeoutId,      \* per call: the load timer
  options,        \* per call: the argument of wxSDK
  inFlight,       \* per call: the element whose load was in flight when the
                  \* call started to wait for it (Null: it did not)
  pc,             \* per call: where initialize() is suspended
  status,         \* per call: the state of the promise wxSDK returned
  error,          \* per call: what it rejected with
  onErrorCalls,   \* per call: arguments of callback.error, in order
  fetches,        \* per call: signature requests issued
  fetchTimeout,   \* per call: the request's abort timer
  reply,          \* per call: what the signature endpoint answered
  configArgs,     \* per call: arguments of wx.config, in order
  sdkReady,       \* per call: the wx.ready callback has run
  sdkError,       \* per call: when the wx.error callback ran: "never",
                  \* "before ready" or "after ready"
  reg,            \* per call, per kind: the share registration
  onReadyCalls,   \* per call: times callback.ready ran
  onSuccessCalls, \* per call: arguments of callback.success, in order
  shareArgs       \* per call, per kind: the descriptor given to wx.update...

env == <<hasDocument, favicon>>
dom == <<doc, elState, onload, onerror>>
loader == <<scriptTag, timeoutId, inFlight>>
flow == <<pc, status, error, onErrorCalls, fetches, fetchTimeout>>
sdk == <<configArgs, sdkReady, sdkError, reg, onReadyCalls, onSuccessCalls, shareArgs>>
vars == <<env, wx, dom, loader, options, flow, reply, sdk>>

NoHandler == [kind |-> "null", call |-> Null]
Handler(kind, i) == [kind |-> kind, call |-> i]

InitCalls ==
  /\ doc = <<>>
  /\ elState = [e \in Calls |-> "none"]
  /\ onload = [e \in Calls |-> NoHandler]
  /\ onerror = [e \in Calls |-> NoHandler]
  /\ scriptTag = [i \in Calls |-> Null]
  /\ timeoutId = [i \in Calls |-> "none"]
  /\ inFlight = [i \in Calls |-> Null]
  /\ options = [i \in Calls |-> NoOptions]
  /\ pc = [i \in Calls |-> "idle"]
  /\ status = [i \in Calls |-> "idle"]
  /\ error = [i \in Calls |-> NoErr]
  /\ onErrorCalls = [i \in Calls |-> <<>>]
  /\ fetches = [i \in Calls |-> 0]
  /\ fetchTimeout = [i \in Calls |-> "none"]
  /\ reply = [i \in Calls |-> NoReply]
  /\ configArgs = [i \in Calls |-> <<>>]
  /\ sdkReady = [i \in Calls |-> FALSE]
  /\ sdkError = [i \in Calls |-> "never"]
  /\ reg = [i \in Calls |-> [k \in Kinds |-> "none"]]
  /\ onReadyCalls = [i \in Calls |-> 0]
  /\ onSuccessCalls = [i \in Calls |-> <<>>]
  /\ shareArgs = [i \in Calls |-> [k \in Kinds |-> NoDescriptor]]

Init ==
  /\ hasDocument \in BOOLEAN
  /\ favicon = NoFavicon
  /\ wx = {}
  /\ InitCalls

\* ---------------------------------------------------------------- helpers
\* the merged config of call i
Config(i) == MergeConfig(options[i])
\* the closure's shareIcon of call i
ShareIcon(i) == ShareIconOf(Config(i), favicon)

InDocument(e) == \E k \in 1..Len(doc) : doc[k] = e

\* document.getElementById(SCRIPT_ID): the first such element in the document
GetElementById == IF doc = <<>> THEN Null ELSE Head(doc)

\* a loader that never looks for a load in flight
ShouldWaitNever(tag) == FALSE

\* scriptTag && scriptTag.parentNode
ShouldWait(tag) == tag # Null /\ InDocument(tag)

\* a removal that leaves the element where it is
RemoveChildKeeps(d, e) == d

\* document.head.removeChild(e)
RemoveChild(d, e) == SelectSeq(d, LAMBDA x : x # e)

\* clearTimeout(t)
ClearTimeout(t) == IF t = "armed" THEN "cleared" ELSE t

\* cleanup(), its effect on the handler table h for the closure's scriptTag
DetachHandlers(h, tag) == IF tag = Null THEN h ELSE [h EXCEPT ![tag] = NoHandler]

\* a catch block that rejects without telling the caller's callback
CaughtSilent(i, err) ==
  /\ UNCHANGED onErrorCalls
  /\ status' = [status EXCEPT ![i] = "rejected"]
  /\ error' = [error EXCEPT ![i] = err]

\* the catch block of initialize: callback.error?.(err); reject(err)
Caught(i, err) ==
  /\ onErrorCalls' = [onErrorCalls EXCEPT ![i] =
                        IF HasCallbacks(options[i]) THEN Append(@, err) ELSE @]
  /\ status' = [status EXCEPT ![i] = "rejected"]
  /\ error' = [error EXCEPT ![i] = err]

\* fetchSignature up to its await: arm the abort timer, issue the request
IssueFetch(i) ==
  /\ pc' = [pc EXCEPT ![i] = "fetching"]
  /\ fetches' = [fetches EXCEPT ![i] = @ + 1]
  /\ fetchTimeout' = [fetchTimeout EXCEPT ![i] = "armed"]

\* initialize resumes after the load: configureWeChat up to its first await,
\* with w the value of w.wx at that moment
ConfigureWeChat(i, w) ==
  IF ~WxCallable(w)
  THEN /\ Caught(i, NotLoadedError)
       /\ pc' = [pc EXCEPT ![i] = "done"]
       /\ UNCHANGED <<fetches, fetchTimeout>>
  ELSE /\ IssueFetch(i)
       /\ UNCHANGED <<status, error, onErrorCalls>>

\* ---------------------------------------------------------------- actions
\* wxSDK(options), from the call to the first await of initialize()
Invoke(i, o) ==
  /\ pc[i] = "idle"
  /\ IF i = 1 THEN TRUE ELSE pc[i - 1] # "idle"   \* calls are numbered in order
  /\ options' = [options EXCEPT ![i] = o]
  /\ LET cfg == MergeConfig(o)
         tag == GetElementById
     IN
     IF ~hasDocument \/ Falsy(cfg.apiUrl)
     THEN /\ status' = [status EXCEPT ![i] = "rejected"]
          /\ error' = [error EXCEPT ![i] =
                         IF ~hasDocument THEN EnvironmentError
                         ELSE ConfigurationError]
          /\ pc' = [pc EXCEPT ![i] = "done"]
          /\ UNCHANGED <<dom, loader, onErrorCalls, fetches, fetchTimeout>>
     ELSE
       /\ status' = [status EXCEPT ![i] = "pending"]
       /\ UNCHANGED <<error, onErrorCalls>>
       /\ IF ~WxCallable(wx)
          THEN IF ShouldWait(tag)
               THEN \* wait for the load in flight
                    /\ scriptTag' = [scriptTag EXCEPT ![i] = tag]
                    /\ inFlight' = [inFlight EXCEPT ![i] =
                                      IF elState[tag] = "loading" /\ pc[tag] = "loadSDK"
                                      THEN tag ELSE Null]
                    /\ onload' = [onload EXCEPT ![tag] = Handler("waiter", i)]
                    /\ onerror' = [onerror EXCEPT ![tag] = Handler("waiter", i)]
                    /\ pc' = [pc EXCEPT ![i] = "waitScript"]
                    /\ UNCHANGED <<doc, elState, timeoutId, fetches, fetchTimeout>>
               ELSE \* loadSDK(): the new element is named after the call
                    /\ scriptTag' = [scriptTag EXCEPT ![i] = i]
                    /\ timeoutId' = [timeoutId EXCEPT ![i] = "armed"]
                    /\ onload' = [DetachHandlers(onload, tag) EXCEPT
                                    ![i] = Handler("loader", i)]
                    /\ onerror' = [DetachHandlers(onerror, tag) EXCEPT
                                     ![i] = Handler("loader", i)]
                    /\ doc' = Append(doc, i)
                    /\ elState' = [elState EXCEPT ![i] = "loading"]
                    /\ pc' = [pc EXCEPT ![i] = "loadSDK"]
                    /\ UNCHANGED <<inFlight, fetches, fetchTimeout>>
          ELSE /\ scriptTag' = [scriptTag EXCEPT ![i] = tag]
               /\ IssueFetch(i)
               /\ UNCHANGED <<dom, timeoutId, inFlight>>
  /\ UNCHANGED <<env, wx, reply, sdk>>

\* The browser delivers the load event of element e; the script it ran made
\* w.wx the object `built` ({}: it defined no usable wx).
ScriptLoad(e, built) ==
  /\ elState[e] = "loading"
  /\ elState' = [elState EXCEPT ![e] = "loaded"]
  /\ wx' = IF built = {} THEN wx ELSE built
  /\ LET h == onload[e] IN
     CASE h.kind = "loader" ->
            \* scriptTag.onload of loadSDK: cleanup(); loadResolve()
            /\ timeoutId' = [timeoutId EXCEPT ![h.call] = ClearTimeout(@)]
            /\ onload' = DetachHandlers(onload, scriptTag[h.call])
            /\ onerror' = DetachHandlers(onerror, scriptTag[h.call])
            /\ ConfigureWeChat(h.call, wx')
       [] h.kind = "waiter" ->
            \* scriptTag.onload = resolve
            /\ ConfigureWeChat(h.call, wx')
            /\ UNCHANGED <<timeoutId, onload, onerror>>
       [] OTHER ->
            UNCHANGED <<timeoutId, onload, onerror, flow>>
  /\ UNCHANGED <<env, doc, scriptTag, inFlight, options, reply, sdk>>

\* The browser delivers the error event of element e.
ScriptError(e) ==
  /\ elState[e] = "loading"
  /\ elState' = [elState EXCEPT ![e] = "errored"]
  /\ LET h == onerror[e] IN
     CASE h.kind = "loader" ->
            \* cleanup(); removeChild(scriptTag); loadReject(...)
            /\ timeoutId' = [timeoutId EXCEPT ![h.call] = ClearTimeout(@)]
            /\ onload' = DetachHandlers(onload, scriptTag[h.call])
            /\ onerror' = DetachHandlers(onerror, scriptTag[h.call])
            /\ doc' = RemoveChild(doc, scriptTag[h.call])
            /\ Caught(h.call, LoadError)
            /\ pc' = [pc EXCEPT ![h.call] = "done"]
            /\ UNCHANGED <<fetches, fetchTimeout>>
       [] h.kind = "waiter" ->
            \* scriptTag.onerror = () => reject(...)
            /\ Caught(h.call, WaitLoadError)
            /\ pc' = [pc EXCEPT ![h.call] = "done"]
            /\ UNCHANGED <<timeoutId, onload, onerror, doc, fetches, fetchTimeout>>
       [] OTHER ->
            UNCHANGED <<timeoutId, onload, onerror, doc, flow>>
  /\ UNCHANGED <<env, wx, scriptTag, inFlight, options, reply, sdk>>

\* The load timer of call i expires: cleanup(); removeChild(scriptTag);
\* loadReject(...). removeChild throws when the element is not a child, and
\* the promise then stays pending.
LoadTimeout(i) ==
  /\ timeoutId[i] = "armed"
  /\ timeoutId' = [timeoutId EXCEPT ![i] = "fired"]
  /\ onload' = DetachHandlers(onload, scriptTag[i])
  /\ onerror' = DetachHandlers(onerror, scriptTag[i])
  /\ IF InDocument(scriptTag[i])
     THEN /\ doc' = RemoveChild(doc, scriptTag[i])
          /\ Caught(i, LoadTimeoutError)
          /\ pc' = [pc EXCEPT ![i] = "done"]
          /\ UNCHANGED <<fetches, fetchTimeout>>
     ELSE UNCHANGED <<doc, flow>>
  /\ UNCHANGED <<env, wx, elState, scriptTag, inFlight, options, reply, sdk>>

\* The signature endpoint answers call i with r: the rest of fetchSignature
\* and, when it returns, configureWeChat up to the promise it returns
\* (wx.config(...), wx.error(wxReject), wx.ready(...)).
FetchRespond(i, r) ==
  /\ pc[i] = "fetching"
  /\ reply' = [reply EXCEPT ![i] = r]
  /\ fetchTimeout' = [fetchTimeout EXCEPT ![i] = ClearTimeout(@)]
  /\ IF FetchSignatureError(r) # NoErr
     THEN /\ Caught(i, FetchSignatureError(r))
          /\ pc' = [pc EXCEPT ![i] = "done"]
          /\ UNCHANGED configArgs
     ELSE /\ configArgs' = [configArgs EXCEPT ![i] =
                              Append(@, [jsApiList |-> FullApiList(Config(i)),
                                         openTagList |-> FullOpenTagList(Config(i))])]
          /\ pc' = [pc EXCEPT ![i] = "waitReady"]
          /\ UNCHANGED <<status, error, onErrorCalls>>
  /\ UNCHANGED <<env, wx, dom, loader, options, fetches>>
  /\ UNCHANGED <<sdkReady, sdkError, reg, onReadyCalls, onSuccessCalls, shareArgs>>

\* The abort timer of call i's request expires: controller.abort(), the
\* fetch rejects and fetchSignature throws from its catch block.
FetchAbort(i) ==
  /\ pc[i] = "fetching"
  /\ fetchTimeout[i] = "armed"
  /\ fetchTimeout' = [fetchTimeout EXCEPT ![i] = "fired"]
  /\ Caught(i, SignatureError("aborted"))
  /\ pc' = [pc EXCEPT ![i] = "done"]
  /\ UNCHANGED <<env, wx, dom, loader, options, fetches, reply, sdk>>

\* a join that does not wait for the registrations
SettledAlways(r) == TRUE
\* Promise.all(shareOperations) is fulfilled
Settled(r) == \A k \in Kinds : r[k] # "pending"

\* Promise.all(shareOperations).then: callback.ready?.(); wxResolve(w.wx),
\* and initialize's resolve(wxInstance) when the promise was still pending.
\* A ready that throws inside .then sends control to .catch, which calls it
\* again; the second throw leaves wxResolve uncalled.
Finalize(i) ==
  IF ReadyThrows(options[i])
  THEN /\ onReadyCalls' = [onReadyCalls EXCEPT ![i] = @ + 2]
       /\ UNCHANGED <<status, pc>>
  ELSE /\ onReadyCalls' = [onReadyCalls EXCEPT ![i] =
                             IF HasCallbacks(options[i]) THEN @ + 1 ELSE @]
       /\ IF status[i] = "pending"
          THEN /\ status' = [status EXCEPT ![i] = "resolved"]
               /\ pc' = [pc EXCEPT ![i] = "done"]
          ELSE UNCHANGED <<status, pc>>

\* The SDK runs the callback call i gave to wx.ready: each descriptor is
\* submitted to the entry point wx has.
SdkReady(i) ==
  /\ configArgs[i] # <<>>
  /\ ~sdkReady[i]
  /\ sdkReady' = [sdkReady EXCEPT ![i] = TRUE]
  /\ reg' = [reg EXCEPT ![i] =
               [k \in Kinds |-> IF EntryPoint(k) \in wx THEN "pending" ELSE "none"]]
  /\ shareArgs' = [shareArgs EXCEPT ![i] =
                     [k \in Kinds |->
                        IF EntryPoint(k) \notin wx THEN NoDescriptor
                        ELSE IF k = "timeline"
                             THEN TimelineConfig(Config(i), ShareIcon(i))
                             ELSE MessageConfig(Config(i), ShareIcon(i))]]
  /\ IF Settled(reg'[i])
     THEN Finalize(i)
     ELSE UNCHANGED <<onReadyCalls, status, pc>>
  /\ UNCHANGED <<env, wx, dom, loader, options, reply>>
  /\ UNCHANGED <<error, onErrorCalls, fetches, fetchTimeout>>
  /\ UNCHANGED <<configArgs, sdkError, onSuccessCalls>>

\* The SDK runs the callback call i gave to wx.error, which is wxReject.
SdkError(i) ==
  /\ configArgs[i] # <<>>
  /\ sdkError[i] = "never"
  /\ sdkError' = [sdkError EXCEPT ![i] =
                    IF sdkReady[i] THEN "after ready" ELSE "before ready"]
  /\ IF status[i] = "pending"
     THEN /\ Caught(i, SdkConfigError)
          /\ pc' = [pc EXCEPT ![i] = "done"]
     ELSE UNCHANGED <<status, error, onErrorCalls, pc>>
  /\ UNCHANGED <<env, wx, dom, loader, options, fetches, fetchTimeout, reply>>
  /\ UNCHANGED <<configArgs, sdkReady, reg, onReadyCalls, onSuccessCalls, shareArgs>>

\* The SDK settles the registration of kind k of call i: its success or its
\* fail callback runs.
ShareSettle(i, k, ok) ==
  /\ reg[i][k] = "pending"
  /\ reg' = [reg EXCEPT ![i][k] = IF ok THEN "ok" ELSE "failed"]
  /\ IF ok
     THEN /\ onSuccessCalls' = [onSuccessCalls EXCEPT ![i] =
                                  IF HasCallbacks(options[i]) THEN Append(@, k) ELSE @]
          /\ UNCHANGED onErrorCalls
     ELSE /\ onErrorCalls' = [onErrorCalls EXCEPT ![i] =
                                IF HasCallbacks(options[i])
                                THEN Append(@, ShareError(k)) ELSE @]
          /\ UNCHANGED onSuccessCalls
  /\ IF Settled(reg'[i])
     THEN Finalize(i)
     ELSE UNCHANGED <<onReadyCalls, status, pc>>
  /\ UNCHANGED <<env, wx, dom, loader, options, reply>>
  /\ UNCHANGED <<error, fetches, fetchTimeout>>
  /\ UNCHANGED <<configArgs, sdkReady, sdkError, shareArgs>>

\* ---------------------------------------------------------- specifications
\* What callers pass: apiUrl given or missing in each of the three ways.
Options ==
  {[NoOptions EXCEPT !.apiUrl = a, !.callbacks = "given"] :
     a \in {Absent, JsNull, "", ApiUrl}}

Next ==
  \/ \E i \in Calls, o \in Options : Invoke(i, o)
  \/ \E e \in Calls, b \in SdkBuilds : ScriptLoad(e, b)
  \/ \E e \in Calls : ScriptError(e)
  \/ \E i \in Calls : LoadTimeout(i)
  \/ \E i \in Calls, r \in Responses : FetchRespond(i, r)
  \/ \E i \in Calls : FetchAbort(i)
  \/ \E i \in Calls : SdkReady(i)
  \/ \E i \in Calls : SdkError(i)
  \/ \E i \in Calls, k \in Kinds, ok \in BOOLEAN : ShareSettle(i, k, ok)

Spec == Init /\ [][Next]_vars

\* A page that already has the SDK, one call, and every jsApiList and
\* openTagList up to MaxList entries.
ApiNames == {"chooseImage", "scanQRCode", "updateTimelineShareData"}
TagNames == {"wx-open-launch-app", "wx-open-launch-weapp"}

RECURSIVE Lists(_, _)
Lists(names, n) ==
  IF n = 0 THEN {<<>>}
  ELSE Lists(names, n - 1) \cup
       {Append(l, x) : l \in {m \in Lists(names, n - 1) : Len(m) = n - 1}, x \in names}

ListOptions ==
  {NoOptions} \cup
  {[NoOptions EXCEPT !.apiUrl = ApiUrl, !.callbacks = "given",
                     !.hasApiList = TRUE, !.jsApiList = a,
                     !.hasTagList = TRUE, !.openTagList = t] :
     a \in Lists(ApiNames, MaxList), t \in Lists(TagNames, MaxList)}

InitLists ==
  /\ hasDocument = TRUE
  /\ favicon = NoFavicon
  /\ wx = {"config"} \cup ShareApis
  /\ InitCalls

NextLists ==
  \/ \E o \in ListOptions : Invoke(1, o)
  \/ \E r \in Responses : FetchRespond(1, r)
  \/ SdkReady(1)
  \/ \E k \in Kinds, ok \in BOOLEAN : ShareSettle(1, k, ok)

SpecLists == InitLists /\ [][NextLists]_vars

\* The same calls on a page where every armed timer eventually fires.
SpecFair ==
  /\ Init
  /\ [][Next]_vars
  /\ \A i \in Calls : WF_vars(LoadTimeout(i)) /\ WF_vars(FetchAbort(i))

\* A page that already has the SDK and any of the icon links, and one call
\* with every shape of title, shareIcon and shareLinks.
Titles == {Scalar("T"), Pair("T0", "T1")}
Icons == {Scalar("https://cdn/i.png"), Pair("https://cdn/i0.png", "https://cdn/i1.png")}
Links ==
  {Scalar(Url("https://site/a", "")), Scalar(Url("https://site/a", "#part")),
   Pair(Url("https://site/0", "#part"), Url("https://site/1", ""))}

ShareOptions ==
  {[NoOptions EXCEPT !.apiUrl = ApiUrl, !.callbacks = "given",
                     !.hasTitle = ht, !.title = t,
                     !.hasShareIcon = hi, !.shareIcon = ic,
                     !.hasShareLinks = hl, !.shareLinks = l] :
     ht \in BOOLEAN, t \in Titles, hi \in BOOLEAN, ic \in Icons,
     hl \in BOOLEAN, l \in Links}

InitShare ==
  /\ hasDocument = TRUE
  /\ favicon \in Favicons
  /\ wx = {"config"} \cup ShareApis
  /\ InitCalls

NextShare ==
  \/ \E o \in ShareOptions : Invoke(1, o)
  \/ \E r \in Responses : FetchRespond(1, r)
  \/ SdkReady(1)
  \/ \E k \in Kinds, ok \in BOOLEAN : ShareSettle(1, k, ok)

SpecShare == InitShare /\ [][NextShare]_vars

\* One call on a fresh page, with every callback object: no callbacks,
\* callbacks that return, and a ready callback that throws.
OneOptions ==
  {[NoOptions EXCEPT !.apiUrl = a, !.callbacks = c] :
     a \in {Absent, JsNull, "", ApiUrl},
     c \in {"none", "given", "ready throws"}}

NextOne ==
  \/ \E o \in OneOptions : Invoke(1, o)
  \/ \E b \in SdkBuilds : ScriptLoad(1, b)
  \/ ScriptError(1)
  \/ LoadTimeout(1)
  \/ \E r \in Responses : FetchRespond(1, r)
  \/ FetchAbort(1)
  \/ SdkReady(1)
  \/ SdkError(1)
  \/ \E k \in Kinds, ok \in BOOLEAN : ShareSettle(1, k, ok)

SpecOne == Init /\ [][NextOne]_vars

\* ------------------------------------------------------------- properties
\* How the load a call waited for ended, as the call saw it.
LoadOutcome(i) ==
  IF pc[i] \in {"loadSDK", "waitScript"} THEN "pending"
  ELSE IF error[i].name \in {"LoadError", "LoadTimeoutError"} THEN "failed"
  ELSE "proceeded"

Count(s, x) == Cardinality({n \in 1..Len(s) : s[n] = x})
Elements(s) == {s[n] : n \in 1..Len(s)}
NoDuplicates(s) == \A p, q \in 1..Len(s) : s[p] = s[q] => p = q
FirstIndex(s, x) == CHOOSE k \in 1..Len(s) : s[k] = x /\ \A m \in 1..(k - 1) : s[m] # x

\* out is base followed by the entries of extra that base lacks, each once,
\* in the order of their first occurrence
IsStableUnion(out, base, extra) ==
  /\ NoDuplicates(out)
  /\ Elements(out) = Elements(base) \cup Elements(extra)
  /\ Len(out) >= Len(base)
  /\ SubSeq(out, 1, Len(base)) = base
  /\ \A p, q \in 1..Len(out) :
       p < q => FirstIndex(base \o extra, out[p]) < FirstIndex(base \o extra, out[q])

\* C1: in every reachable state the document holds at most one script element
\* with id wxShareSDK, and a call that waits for an element found in the
\* document has created no element and armed no load timer of its own.
C1_AtMostOneScriptElement ==
  /\ Len(doc) <= 1
  /\ \A i \in Calls :
       pc[i] = "waitScript" =>
         /\ elState[i] = "none"
         /\ timeoutId[i] = "none"
         /\ scriptTag[i] # i

\* C1 witness: one call has injected the element, another waits on that element.
C1_Witness ==
  \E a, b \in Calls :
    /\ a # b
    /\ pc[a] = "loadSDK"
    /\ pc[b] = "waitScript"
    /\ scriptTag[b] = a
    /\ doc = <<a>>

\* C2: a call that started to wait while another call's load was in flight
\* sees the same outcome of that load as the call that injected the element:
\* both pending, both proceeded to configureWeChat, or both failed.
C2_SameLoadOutcome ==
  \A b \in Calls :
    inFlight[b] # Null => LoadOutcome(b) = LoadOutcome(inFlight[b])

\* C3: a call made in a browser without a usable apiUrl (absent, null or
\* empty) has rejected with the configuration error and has done nothing
\* else: no element, no handler, no timer, no request, no SDK call.
C3_MissingApiUrlRejectsFirst ==
  \A i \in Calls :
    (hasDocument /\ status[i] # "idle" /\ options[i].apiUrl \in {Absent, JsNull, ""}) =>
      /\ status[i] = "rejected"
      /\ error[i] = ConfigurationError
      /\ elState[i] = "none"
      /\ scriptTag[i] = Null
      /\ \A e \in Calls : onload[e].call # i /\ onerror[e].call # i
      /\ timeoutId[i] = "none"
      /\ fetches[i] = 0
      /\ fetchTimeout[i] = "none"
      /\ configArgs[i] = <<>>
      /\ ~sdkReady[i]
      /\ \A k \in Kinds : reg[i][k] = "none"

\* C3 witness: while one call's script is loading, a later call with an empty
\* apiUrl has been rejected.
C3_Witness ==
  \E a, b \in Calls :
    /\ a < b
    /\ pc[a] = "loadSDK"
    /\ InDocument(a)
    /\ options[b].apiUrl = ""
    /\ status[b] = "rejected"

\* C4: when the signature request of a call failed (no response, a status
\* other than 200, a body that is not JSON, a body lacking one of the four
\* fields, or the abort timer fired), the call has rejected with a signature
\* error that carries the cause, callback.error got that error, and wx.config
\* was not called by it.
C4_SignatureFailureRejects ==
  \A i \in Calls :
    LET r == reply[i]
        aborted == fetchTimeout[i] = "fired"
        failed == r # NoReply /\
                  (r.net = "failed" \/ r.status # 200 \/ r.body # "object"
                     \/ r.fields # SigFields)
        cause == IF aborted THEN "aborted"
                 ELSE IF r.net = "failed" THEN "network error"
                 ELSE IF r.status = 500 THEN "request failed (500)"
                 ELSE IF r.status = 404 THEN "request failed (404)"
                 ELSE IF r.body = "malformed" THEN "invalid json"
                 ELSE "bad response format"
    IN (aborted \/ failed) =>
         /\ status[i] = "rejected"
         /\ error[i] = [name |-> "SignatureError", cause |-> cause]
         /\ onErrorCalls[i] = <<error[i]>>
         /\ configArgs[i] = <<>>
         /\ ~sdkReady[i]

\* C4 witness: the endpoint answered 500 and the call has rejected.
C4_Witness ==
  \E i \in Calls :
    /\ reply[i].net = "ok"
    /\ reply[i].status = 500
    /\ status[i] = "rejected"
    /\ fetches[i] = 1

\* C5: when both registrations were submitted after readiness and have
\* settled, the call has resolved, callback.ready ran exactly once,
\* callback.success ran once with the kind of each registration that
\* succeeded and callback.error once with the error of each that failed.
C5_SettledSharesResolve ==
  \A i \in Calls :
    (sdkReady[i] /\ sdkError[i] # "before ready"
       /\ \A k \in Kinds : reg[i][k] \in {"ok", "failed"}) =>
      /\ status[i] = "resolved"
      /\ onReadyCalls[i] = 1
      /\ \A k \in Kinds :
           /\ Count(onSuccessCalls[i], k) = (IF reg[i][k] = "ok" THEN 1 ELSE 0)
           /\ Count(onErrorCalls[i], ShareError(k)) =
                (IF reg[i][k] = "failed" THEN 1 ELSE 0)

\* C6: a call for which the SDK has signalled readiness (without having
\* reported an error before) is never in the rejected state.
C6_NoRejectAfterReady ==
  \A i \in Calls :
    (sdkReady[i] /\ sdkError[i] # "before ready") => status[i] # "rejected"

\* C7: every step in which the load timer of a call fires leaves the document
\* without a wxShareSDK element and the call rejected with the load-timeout
\* error.
C7_TimeoutRemovesAndRejects ==
  [][\A i \in Calls :
       (timeoutId[i] = "armed" /\ timeoutId'[i] = "fired") =>
         /\ doc' = <<>>
         /\ status'[i] = "rejected"
         /\ error'[i] = LoadTimeoutError
         /\ onErrorCalls'[i] = <<LoadTimeoutError>>]_vars

\* C7 witness: the element a call injected fired neither event, the timer
\* fired, the element is gone and the call has rejected with the timeout.
C7_Witness ==
  \E i \in Calls :
    /\ elState[i] = "loading"
    /\ timeoutId[i] = "fired"
    /\ doc = <<>>
    /\ status[i] = "rejected"
    /\ error[i] = LoadTimeoutError

\* C8: once the load or error event of an element has been delivered, the
\* load timer armed for it is no longer armed; and once that timer has
\* fired, the element has no load or error handler.
C8_FirstToSettleWins ==
  \A e \in Calls :
    /\ elState[e] \in {"loaded", "errored"} => timeoutId[e] # "armed"
    /\ timeoutId[e] = "fired" => onload[e] = NoHandler /\ onerror[e] = NoHandler

\* C9: once the error event of an element has been delivered (its timer not
\* having fired first), the element is out of the document and every call
\* that waited for that load has rejected with the load error.
C9_LoadErrorRemovesAndRejectsAll ==
  \A e \in Calls :
    (elState[e] = "errored" /\ timeoutId[e] # "fired") =>
      /\ ~InDocument(e)
      /\ \A i \in Calls :
           (i = e \/ inFlight[i] = e) =>
             status[i] = "rejected" /\ error[i].name = "LoadError"

\* C10: the jsApiList given to wx.config is BASE_API_LIST followed by the
\* caller's other entries in first-occurrence order, without duplicates
\* (for jsApiList = <<"chooseImage">>: the two baseline names and
\* "chooseImage"); likewise openTagList with DEFAULT_OPEN_TAGS.
C10_StableDeduplicatedUnion ==
  \A i \in Calls :
    \A n \in 1..Len(configArgs[i]) :
      /\ IsStableUnion(configArgs[i][n].jsApiList, BASE_API_LIST, Config(i).jsApiList)
      /\ IsStableUnion(configArgs[i][n].openTagList, DEFAULT_OPEN_TAGS,
                       Config(i).openTagList)
      /\ Config(i).jsApiList = <<"chooseImage">> =>
           configArgs[i][n].jsApiList =
             <<"updateTimelineShareData", "updateAppMessageShareData", "chooseImage">>

\* C10 witness: the caller repeated an entry and named a baseline capability,
\* and wx.config was called with the three-element list.
C10_Witness ==
  \E i \in Calls :
    /\ options[i].hasApiList
    /\ options[i].jsApiList = <<"chooseImage", "updateTimelineShareData", "chooseImage">>
    /\ options[i].openTagList = <<"wx-open-launch-weapp", "wx-open-launch-app">>
    /\ Len(configArgs[i]) = 1
    /\ configArgs[i][1].jsApiList =
         <<"updateTimelineShareData", "updateAppMessageShareData", "chooseImage">>
    /\ configArgs[i][1].openTagList = <<"wx-open-launch-app", "wx-open-launch-weapp">>

\* C11: for each of title, shareIcon and shareLinks the caller supplied, the
\* descriptors given to the two registrations carry the same value when it
\* is a scalar, and element 0 (timeline) and element 1 (message) when it is
\* an array of two.
C11_ScalarSharedPairSplit ==
  \A i \in Calls :
    (reg[i]["timeline"] # "none" /\ reg[i]["message"] # "none") =>
      LET t == shareArgs[i]["timeline"]
          m == shareArgs[i]["message"]
          o == options[i]
      IN /\ o.hasTitle =>
              IF o.title.isArray
              THEN t.title = o.title.at[1] /\ m.title = o.title.at[2]
              ELSE t.title = m.title
         /\ o.hasShareLinks =>
              IF o.shareLinks.isArray
              THEN t.link = o.shareLinks.at[1] /\ m.link = o.shareLinks.at[2]
              ELSE t.link = m.link
         /\ o.hasShareIcon =>
              IF o.shareIcon.isArray
              THEN t.imgUrl = o.shareIcon.at[1] /\ m.imgUrl = o.shareIcon.at[2]
              ELSE t.imgUrl = m.imgUrl

\* C12: when w.wx.config is a function at the moment wxSDK is called (in a
\* browser, with an apiUrl), the call creates and appends no script element,
\* arms no load timer, changes no handler of any script element, and issues
\* the signature request in the same synchronous run.
C12_PresentSdkSkipsLoader ==
  [][\A i \in Calls :
       (pc[i] = "idle" /\ status'[i] = "pending" /\ "config" \in wx) =>
         /\ doc' = doc
         /\ elState' = elState
         /\ timeoutId' = timeoutId
         /\ onload' = onload /\ onerror' = onerror
         /\ pc'[i] = "fetching"
         /\ fetches'[i] = fetches[i] + 1]_vars

\* a call that went to the signature request on a page whose script element
\* another call had loaded: it has no element and no timer of its own, and
\* it is in no handler of the element it found
C12_Witness ==
  \E i \in Calls :
      /\ pc[i] = "fetching" /\ fetches[i] = 1
      /\ elState[i] = "none" /\ timeoutId[i] = "none"
      /\ scriptTag[i] \notin {Null, i}
      /\ InDocument(scriptTag[i])
      /\ onload[scriptTag[i]].call # i /\ onerror[scriptTag[i]].call # i

\* C13: on a page whose armed timers all fire, every call that enters the
\* loader (it injects the script or waits for the one in the document)
\* eventually leaves it, by going on to the signature request or by
\* rejecting.
C13_LoaderAlwaysLeft ==
  \A i \in Calls :
    (pc[i] \in {"loadSDK", "waitScript"}) ~>
      (pc[i] \notin {"loadSDK", "waitScript"})

\* C14: within one call the steps come in order: the signature request is
\* issued only once wx.config is a function and the load the call made or
\* waited for has ended with the load event; wx.config is called only with a
\* usable signature reply; registrations are submitted only after the ready
\* callback ran; callback.ready runs and the call resolves only when every
\* submitted registration has settled.
C14_StepsInOrder ==
  \A i \in Calls :
    /\ fetches[i] > 0 =>
         /\ WxCallable(wx)
         /\ elState[i] # "none" => elState[i] = "loaded"
         /\ inFlight[i] # Null => elState[inFlight[i]] = "loaded"
    /\ configArgs[i] # <<>> =>
         /\ fetches[i] > 0
         /\ reply[i] # NoReply /\ FetchSignatureError(reply[i]) = NoErr
    /\ (\E k \in Kinds : reg[i][k] # "none") =>
         sdkReady[i] /\ configArgs[i] # <<>>
    /\ (onReadyCalls[i] > 0 \/ status[i] = "resolved") =>
         /\ sdkReady[i]
         /\ \A k \in Kinds : reg[i][k] \in {"none", "ok", "failed"}

\* a call that injected the script, went through every step and resolved
\* with one registration succeeded and the other failed
C14_Witness ==
  \E i \in Calls :
    /\ elState[i] = "loaded"
    /\ fetches[i] = 1 /\ Len(configArgs[i]) = 1
    /\ reg[i]["timeline"] = "ok" /\ reg[i]["message"] = "failed"
    /\ onReadyCalls[i] = 1
    /\ status[i] = "resolved"

\* C15: when the SDK runs the wx.error callback before the wx.ready callback,
\* callback.error gets that error and the call rejects with it, no share
\* registration is submitted and callback.ready is not run in that call.
C15_ErrorBeforeReadyStops ==
  \A i \in Calls :
    sdkError[i] = "before ready" =>
      /\ status[i] = "rejected" /\ error[i] = SdkConfigError
      /\ HasCallbacks(options[i]) => Count(onErrorCalls[i], SdkConfigError) = 1
      /\ \A k \in Kinds : reg[i][k] = "none"
      /\ onReadyCalls[i] = 0

C17_FaviconOnlyReplacesDefault ==
  \A i \in Calls :
    /\ (reg[i]["timeline"] # "none" /\ reg[i]["message"] # "none") =>
         LET t == shareArgs[i]["timeline"].imgUrl
             m == shareArgs[i]["message"].imgUrl
             o == options[i]
         IN IF o.hasShareIcon
            THEN IF o.shareIcon.isArray
                 THEN t = o.shareIcon.at[1] /\ m = o.shareIcon.at[2]
                 ELSE t = o.shareIcon.at[1] /\ m = o.shareIcon.at[1]
            ELSE favicon = FaviconUrl => (t = FaviconUrl /\ m = FaviconUrl)
    /\ (favicon = FaviconThrows /\ status[i] = "rejected") =>
         error[i] = FetchSignatureError(reply[i])

\* C18: nothing is retried: a call issues at most one signature request,
\* injects at most one script element and calls wx.config at most once; and
\* once it has rejected it issues no request, injects no element and makes
\* no call to the SDK (wx.config or a share registration).
C18_NoRetryNoWorkAfterReject ==
  [][\A i \in Calls :
       /\ fetches'[i] <= 1
       /\ Len(configArgs'[i]) <= 1
       /\ Count(doc', i) <= 1
       /\ status[i] = "rejected" =>
            /\ fetches'[i] = fetches[i]
            /\ configArgs'[i] = configArgs[i]
            /\ Count(doc', i) <= Count(doc, i)
            /\ \A k \in Kinds : reg[i][k] = "none" => reg'[i][k] = "none"]_vars

\* C19: a call that rejected with a load, timeout, signature, SDK-not-loaded
\* or SDK configuration error has had callback.error, when the caller gave
\* one, run exactly once with the error it rejected with; a call that
\* rejected for a missing document or a missing apiUrl has had no
\* callback.error run at all.
C19_OnErrorOnceWithRejection ==
  \A i \in Calls :
    status[i] = "rejected" =>
      IF error[i] \in {EnvironmentError, ConfigurationError}
      THEN onErrorCalls[i] = <<>>
      ELSE IF HasCallbacks(options[i])
           THEN Count(onErrorCalls[i], error[i]) = 1
           ELSE onErrorCalls[i] = <<>>

\* a call with callbacks whose script failed to load: it rejected with the
\* load error after callback.error got it
C19_Witness ==
  \E i \in Calls :
    /\ HasCallbacks(options[i])
    /\ elState[i] = "errored"
    /\ status[i] = "rejected" /\ error[i] = LoadError
    /\ onErrorCalls[i] = <<LoadError>>

\* C20: callback.ready runs at most once in a call and the call is resolved
\* once it has run, whatever callback.ready does, a throw included (stated
\* for calls in which the SDK reported no error).
C20_OnReadyOnceThenResolved ==
  \A i \in Calls :
    sdkError[i] = "never" =>
      /\ onReadyCalls[i] <= 1
      /\ onReadyCalls[i] >= 1 => status[i] = "resolved"

====
